---- MODULE Spec2Model ----
(***************************************************************************)
(* Model of the JMeter distributed load test tooling:                      *)
(*   aws_helper.py    fleet registry file, launch / discover / terminate   *)
(*   slave.py         worker agent (Flask handlers, starter threads)       *)
(*   jmeter_runner.py executor start, liveness check, result file          *)
(*   master.py        one test round: dispatch, poll, collect, analyze     *)
(***************************************************************************)
EXTENDS Integers, Sequences, FiniteSets, TLC

\* ------------------------------------------------------------------ bounds
\* Number of EC2 instance ids the provider can hand out.
MaxInst == 2
\* Number of public addresses an instance can go through (stop/start cycles).
MaxPub == 2
\* Number of dispatches one worker accepts (starter threads it ever spawns).
MaxRuns == 2
\* Number of poll passes of one round.
MaxPasses == 2
\* Number of rows the collected files of one analysis hold together.
MaxRows == 3
\* Number of different contents a client uploads under one file name.
MaxContents == 2

VARIABLES
    instance_ips_file,  \* aws_helper.INSTANCE_IPS_FILE: [exists, data]
    cloud,              \* provider side: instance id -> [state, pub, index]
    corrupt,            \* whether INSTANCE_IPS_FILE holds text that is not JSON
    hist,               \* the last registry operation: [op, outcome, pre, ids, new]
    \* ---- slave.py / jmeter_runner.py, per node
    jmeter_process,     \* slave.jmeter_process: 0 (None) or the run whose handle it holds
    thread,             \* run_test threads: run -> "none","started","cleared","popened","done"
    proc,               \* executor processes: run -> "none","alive","writing","exited"
    results_file,       \* results-file.jtl on the node: 0 (absent) or the run that wrote it
    last_response,      \* the node's last HTTP answer: [op, code, body, busy]
    load_test_dir,      \* slave.LOAD_TEST_DIR on the node: file name -> content, 0 when absent
    reachable,          \* whether requests to the node get through
    \* ---- master.py, one test round
    pc,                 \* position of main(): menu, dispatch, poll, sleep, collect, analyze,
                        \* done (back at the menu after the round), crashed (uncaught exception)
    pos,                \* position in ips_data of the member the current loop is at
    passes,             \* poll passes started in this round
    all_finished,       \* monitor_tests_on_slaves.all_finished
    down_at_start,      \* members that were unreachable when the round started
    dispatched,         \* members whose /start-test handler ran in this round
    answers,            \* the /check-status answers each member gave in this round, in order
    fetched,            \* outcome of /get-results per member: none, ok, notfound, neterr
    result_files,       \* <id>_results.jtl on the master: 0 none, -1 error body, t artifact of run t
    results,            \* collect_results_from_slaves's return: [none, files]
    failed_request,     \* the call whose exception ended main(): [op, node]
    \* ---- jmeter_runner.analyze_results over the collected files
    all_results,        \* the collected .jtl files, each a sequence of rows after the header
    apc,                \* position of the analysis: idle, read, rows, done, crashed
    file_no,            \* position in all_results of the file being analyzed
    row_no,             \* position of df.iterrows() in the file
    status_counts,      \* analyze_results.status_counts
    other_errors,       \* analyze_results.other_errors, in insertion order: [key, count]
    error_5xx,          \* analyze_results.error_5xx, in insertion order: [key, count]
    printed             \* the reports printed so far, one per analyze_results call

fleetVars == <<instance_ips_file, corrupt, cloud, hist>>

workerVars == <<jmeter_process, thread, proc, results_file, last_response>>

masterVars == <<pc, pos, passes, all_finished, down_at_start, dispatched,
                answers, fetched, result_files, results, failed_request>>

analyzeVars == <<all_results, apc, file_no, row_no, status_counts, other_errors,
                 error_5xx, printed>>

vars == <<instance_ips_file, corrupt, cloud, hist, jmeter_process, thread, proc, results_file,
          last_response, reachable, pc, pos, passes, all_finished, down_at_start,
          dispatched, answers, fetched, result_files,
          results, failed_request, all_results, apc, file_no, row_no, status_counts,
          other_errors, error_5xx, printed, load_test_dir>>

\* ------------------------------------------------------------------ helpers
Ids == 1..MaxInst

Runs == 1..MaxRuns

NoResponse == [op |-> "none", code |-> 0, body |-> "none", busy |-> FALSE]

NoRequest == [op |-> "none", node |-> 0]

Range(s) == {s[k] : k \in DOMAIN s}

\* All orders in which the provider may list the set S.
Perms(S) ==
    {s \in [1..Cardinality(S) -> S] : \A a, b \in 1..Cardinality(S) : a # b => s[a] # s[b]}

IdsOf(data) == {data[k].InstanceId : k \in DOMAIN data}

NoFile == [exists |-> FALSE, data |-> <<>>]

NoInstance == [state |-> "absent", pub |-> 0, index |-> 0]

EnvStep == [op |-> "env", outcome |-> "ok", pre |-> NoFile, ids |-> {}, new |-> {}]

\* Ids the provider lists for the Name tag filter (terminated ones are still listed).
Described(c) == {i \in Ids : c[i].state # "absent"}

\* The ids the provider hands out next, in increasing order.
FreshIds(c, count) ==
    {i \in Ids : c[i].state = "absent"
                 /\ Cardinality({j \in Ids : j < i /\ c[j].state = "absent"}) < count}

\* ------------------------------------------------------------------ aws_helper.py
\* get_next_instance_index: len(file) + 1, or 1 when the file is missing.
get_next_instance_index(file) ==
    IF file.exists THEN Len(file.data) + 1 ELSE 1

\* get_instance_public_ips: one entry per described instance, in the provider's order.
get_instance_public_ips(c, order) ==
    [k \in 1..Len(order) |->
        [InstanceId |-> order[k],
         PublicIpAddress |-> c[order[k]].pub,
         PrivateIpAddress |-> order[k]]]

\* Instances that run_instances creates: the k-th new id is tagged next_index + k.
RunInstances(c, new, next_index, st) ==
    [i \in Ids |->
        IF i \in new
        THEN [state |-> st, pub |-> 1,
              index |-> next_index + Cardinality({j \in new : j < i})]
        ELSE c[i]]

\* The file content launch_instances writes: the new instances only.
LaunchWrite(file, ip_data) == [exists |-> TRUE, data |-> ip_data]

launch_instances(count) ==
    /\ Cardinality(FreshIds(cloud, count)) = count
    /\ LET new == FreshIds(cloud, count)
           next_index == get_next_instance_index(instance_ips_file)
       IN \/ \* run_instances raises ClientError: caught, nothing written
             /\ hist' = [op |-> "launch", outcome |-> "client_error",
                         pre |-> instance_ips_file, ids |-> {}, new |-> {}]
             /\ UNCHANGED <<instance_ips_file, cloud>>
          \/ \* the instance_running waiter raises: instances exist, nothing written
             /\ cloud' = RunInstances(cloud, new, next_index, "pending")
             /\ hist' = [op |-> "launch", outcome |-> "waiter_error",
                         pre |-> instance_ips_file, ids |-> new, new |-> new]
             /\ UNCHANGED instance_ips_file
          \/ \* success: the file is opened with 'w' and holds ip_data
             /\ cloud' = RunInstances(cloud, new, next_index, "running")
             /\ \E order \in Perms(new) :
                   instance_ips_file' =
                       LaunchWrite(instance_ips_file,
                                   get_instance_public_ips(cloud', order))
             /\ hist' = [op |-> "launch", outcome |-> "ok",
                         pre |-> instance_ips_file, ids |-> new, new |-> new]

\* find_existing_instances, lines 235-248: terminated instances are skipped,
\* running and other (pending) ones are collected, stopped ones are started
\* and added (line 257).
instance_ids(c) ==
    {i \in Ids : c[i].state \in {"running", "pending"}}
    \cup {i \in Ids : c[i].state = "stopped"}

\* start_instances on the stopped ones: a started instance gets a new public address.
StartStopped(c, st) ==
    [i \in Ids |->
        IF c[i].state = "stopped"
        THEN [c[i] EXCEPT !.state = st, !.pub = c[i].pub + 1]
        ELSE IF c[i].state = "pending" THEN [c[i] EXCEPT !.state = st] ELSE c[i]]

\* Variant of updated_ips that rewrites the file from the description alone.
updated_ips_rewrite(existing_ips, found, ip_data) == ip_data

\* Variant of updated_ips that appends every described entry.
updated_ips_append_all(existing_ips, found, ip_data) ==
    SelectSeq(existing_ips, LAMBDA e : e.InstanceId \in found) \o ip_data

\* Lines 276-277: keep the file's entries whose id was found, then append the
\* described entries whose id is not among the kept ones.
updated_ips(existing_ips, found, ip_data) ==
    LET kept == SelectSeq(existing_ips, LAMBDA e : e.InstanceId \in found)
    IN kept \o SelectSeq(ip_data, LAMBDA ip : ip.InstanceId \notin IdsOf(kept))

find_existing_instances ==
    LET found == instance_ids(cloud)
    IN \/ \* describe_instances raises ClientError
          /\ hist' = [op |-> "reconcile", outcome |-> "client_error",
                      pre |-> instance_ips_file, ids |-> {}, new |-> {}]
          /\ UNCHANGED <<instance_ips_file, cloud>>
       \/ \* the waiter raises after the stopped instances were started
          /\ found # {}
          /\ cloud' = StartStopped(cloud, "pending")
          /\ hist' = [op |-> "reconcile", outcome |-> "waiter_error",
                      pre |-> instance_ips_file, ids |-> found, new |-> {}]
          /\ UNCHANGED instance_ips_file
       \/ \* success
          /\ cloud' = StartStopped(cloud, "running")
          /\ \E order \in Perms(found) :
                LET ip_data == get_instance_public_ips(cloud', order)
                IN instance_ips_file' =
                      [exists |-> TRUE,
                       data |-> IF instance_ips_file.exists
                                THEN updated_ips(instance_ips_file.data, found, ip_data)
                                ELSE ip_data]
          /\ hist' = [op |-> "reconcile", outcome |-> "ok",
                      pre |-> instance_ips_file, ids |-> found, new |-> {}]

Terminated(c) ==
    [i \in Ids |-> IF c[i].state # "absent" THEN [c[i] EXCEPT !.state = "terminated"] ELSE c[i]]

\* Variant of ClearedFile that removes the file before the waiter returns.
ClearedFileBeforeWait(file, waited) == NoFile

\* terminate_instances, lines 309-316: os.remove(INSTANCE_IPS_FILE) is reached
\* only after the instance_terminated waiter has returned.
ClearedFile(file, waited) == IF waited THEN NoFile ELSE file

terminate_instances ==
    LET all == Described(cloud)
    IN \/ \* describe_instances or terminate_instances raises ClientError
          /\ hist' = [op |-> "terminate", outcome |-> "client_error",
                      pre |-> instance_ips_file, ids |-> {}, new |-> {}]
          /\ UNCHANGED <<instance_ips_file, cloud>>
       \/ \* "No instances found to terminate."
          /\ all = {}
          /\ hist' = [op |-> "terminate", outcome |-> "none",
                      pre |-> instance_ips_file, ids |-> {}, new |-> {}]
          /\ UNCHANGED <<instance_ips_file, cloud>>
       \/ \* the instance_terminated waiter raises: the file is not removed
          /\ all # {}
          /\ cloud' = Terminated(cloud)
          /\ hist' = [op |-> "terminate", outcome |-> "waiter_error",
                      pre |-> instance_ips_file, ids |-> all, new |-> {}]
          /\ instance_ips_file' = ClearedFile(instance_ips_file, FALSE)
       \/ \* success: os.remove(INSTANCE_IPS_FILE)
          /\ all # {}
          /\ cloud' = Terminated(cloud)
          /\ instance_ips_file' = ClearedFile(instance_ips_file, TRUE)
          /\ hist' = [op |-> "terminate", outcome |-> "ok",
                      pre |-> instance_ips_file, ids |-> all, new |-> {}]

\* ------------------------------------------------------------------ provider side
\* An instance is stopped from outside (console, spot interruption).
StopInstance(n) ==
    /\ cloud[n].state = "running"
    /\ cloud[n].pub < MaxPub
    /\ cloud' = [cloud EXCEPT ![n].state = "stopped"]
    /\ hist' = EnvStep
    /\ UNCHANGED instance_ips_file

\* A pending instance reaches the running state.
InstanceRunning(n) ==
    /\ cloud[n].state = "pending"
    /\ cloud' = [cloud EXCEPT ![n].state = "running"]
    /\ hist' = EnvStep
    /\ UNCHANGED instance_ips_file

\* An instance is terminated from outside.
TerminateExternally(n) ==
    /\ cloud[n].state \in {"running", "stopped", "pending"}
    /\ cloud' = [cloud EXCEPT ![n].state = "terminated"]
    /\ hist' = EnvStep
    /\ UNCHANGED instance_ips_file

\* ------------------------------------------------------------------ jmeter_runner.py
\* check_jmeter_status: process.poll() is None while the process has not exited.
check_jmeter_status(state) ==
    IF state \in {"alive", "writing"} THEN "Running" ELSE "Completed"

\* get_latest_results_file: the path when results-file.jtl exists, else None (0).
get_latest_results_file(n) == results_file[n]

\* An accepted run that has not completed: its starter thread is still in
\* run_jmeter_test or about to store the handle, or its executor has not exited.
Incomplete(n, t) ==
    \/ thread[n][t] \in {"started", "cleared", "popened"}
    \/ proc[n][t] \in {"alive", "writing"}

\* run_jmeter_test, lines 20-22: remove the existing result file.
ThreadClear(n, t) ==
    /\ thread[n][t] = "started"
    /\ thread' = [thread EXCEPT ![n][t] = "cleared"]
    /\ results_file' = [results_file EXCEPT ![n] = 0]
    /\ UNCHANGED <<jmeter_process, proc, last_response>>

\* run_jmeter_test, lines 24-31: subprocess.Popen starts the executor.
ThreadPopen(n, t) ==
    /\ thread[n][t] = "cleared"
    /\ thread' = [thread EXCEPT ![n][t] = "popened"]
    /\ proc' = [proc EXCEPT ![n][t] = "alive"]
    /\ UNCHANGED <<jmeter_process, results_file, last_response>>

\* Variant of StoredHandle in which only the first run's thread stores a handle.
StoredHandleFirstOnly(n, t) == IF t = 1 THEN t ELSE 0

\* The handle that run_test stores in the global when run_jmeter_test returns.
StoredHandle(n, t) == t

\* slave.run_test, line 47: jmeter_process = run_jmeter_test(jmx_file).
ThreadAssign(n, t) ==
    /\ thread[n][t] = "popened"
    /\ thread' = [thread EXCEPT ![n][t] = "done"]
    /\ jmeter_process' = [jmeter_process EXCEPT ![n] = StoredHandle(n, t)]
    /\ UNCHANGED <<proc, results_file, last_response>>

\* The executor (jmeter -l results-file.jtl) creates its result file.
ExecutorWrites(n, t) ==
    /\ proc[n][t] = "alive"
    /\ proc' = [proc EXCEPT ![n][t] = "writing"]
    /\ results_file' = [results_file EXCEPT ![n] = t]
    /\ UNCHANGED <<jmeter_process, thread, last_response>>

\* The executor exits (with or without having written a result file).
ExecutorExits(n, t) ==
    /\ proc[n][t] \in {"alive", "writing"}
    /\ proc' = [proc EXCEPT ![n][t] = "exited"]
    /\ UNCHANGED <<jmeter_process, thread, results_file, last_response>>

\* ------------------------------------------------------------------ slave.py
\* The run a newly spawned run_test thread gets: the next unused one.
NextRun(n) == Cardinality({t \in Runs : thread[n][t] # "none"}) + 1

\* start_test, line 41: the request is refused when the stored handle is Running.
AlreadyRunning(n) ==
    /\ jmeter_process[n] # 0
    /\ check_jmeter_status(proc[n][jmeter_process[n]]) = "Running"

\* start_test: answer 400 when a run is seen Running, else spawn run_test and answer 200.
start_test(n) ==
    LET busy == \E t \in Runs : Incomplete(n, t)
    IN IF AlreadyRunning(n)
       THEN /\ last_response' = [last_response EXCEPT ![n] =
                   [op |-> "start", code |-> 400, body |-> "JMeter test already running",
                    busy |-> busy]]
            /\ UNCHANGED <<jmeter_process, thread, proc, results_file>>
       ELSE /\ NextRun(n) \in Runs
            /\ thread' = [thread EXCEPT ![n][NextRun(n)] = "started"]
            /\ last_response' = [last_response EXCEPT ![n] =
                   [op |-> "start", code |-> 200, body |-> "Test started on slave",
                    busy |-> busy]]
            /\ UNCHANGED <<jmeter_process, proc, results_file>>

\* check_status: "No test running" when no handle is stored, else the handle's liveness.
StatusOf(n) ==
    IF jmeter_process[n] = 0
    THEN "No test running"
    ELSE check_jmeter_status(proc[n][jmeter_process[n]])

check_status(n) ==
    /\ last_response' = [last_response EXCEPT ![n] =
           [op |-> "status", code |-> 200, body |-> StatusOf(n),
            busy |-> \E t \in Runs : Incomplete(n, t)]]
    /\ UNCHANGED <<jmeter_process, thread, proc, results_file>>

\* File names as sequences of characters.
Filenames ==
    {<<"a", ".", "j", "m", "x">>, <<".", "j", "m", "x">>, <<"a", ".", "t", "x", "t">>,
     <<"j", "m", "x">>, <<>>}

\* request.files.get('file'): no file part, or a file with a name and a content.
NoUpload == [present |-> FALSE, filename |-> <<>>, content |-> 0]

Uploads ==
    {NoUpload} \cup
    {[present |-> TRUE, filename |-> name, content |-> c] :
        name \in Filenames, c \in 1..MaxContents}

\* str.endswith
endswith(name, suffix) ==
    /\ Len(name) >= Len(suffix)
    /\ SubSeq(name, Len(name) - Len(suffix) + 1, Len(name)) = suffix

\* Variant of AcceptedUpload without the extension test.
AcceptedUploadAnyName(file) == file.present /\ file.filename # <<>>

\* sync_jmx, line 26: file and file.filename.endswith(".jmx"); a file part
\* with an empty name is falsy.
AcceptedUpload(file) ==
    /\ file.present
    /\ file.filename # <<>>
    /\ endswith(file.filename, <<".", "j", "m", "x">>)

\* sync_jmx, lines 27-28: file.save(os.path.join(LOAD_TEST_DIR, file.filename)).
Saved(dir, file) == [dir EXCEPT ![file.filename] = file.content]

\* sync_jmx: save an accepted file (200), else answer 400.
sync_jmx(n, file) ==
    /\ IF AcceptedUpload(file)
       THEN /\ load_test_dir' = [load_test_dir EXCEPT ![n] = Saved(@, file)]
            /\ last_response' = [last_response EXCEPT ![n] =
                   [op |-> "sync", code |-> 200, body |-> "success", busy |-> FALSE]]
       ELSE /\ UNCHANGED load_test_dir
            /\ last_response' = [last_response EXCEPT ![n] =
                   [op |-> "sync", code |-> 400, body |-> "error", busy |-> FALSE]]
    /\ UNCHANGED <<jmeter_process, thread, proc, results_file>>

\* get_results: the result file when it exists (200), else 404.
get_results(n) ==
    /\ last_response' = [last_response EXCEPT ![n] =
           IF get_latest_results_file(n) # 0
           THEN [op |-> "results", code |-> 200, body |-> "artifact", busy |-> FALSE]
           ELSE [op |-> "results", code |-> 404, body |-> "No results available",
                 busy |-> FALSE]]
    /\ UNCHANGED <<jmeter_process, thread, proc, results_file>>

\* Steps a worker takes on its own: starter threads and executors.
WorkerStep(n) ==
    \E t \in Runs :
        \/ ThreadClear(n, t)
        \/ ThreadPopen(n, t)
        \/ ThreadAssign(n, t)
        \/ ExecutorWrites(n, t)
        \/ ExecutorExits(n, t)

\* ------------------------------------------------------------------ master.py
\* load_instance_ips: the file's list, or [] when the file is missing.
load_instance_ips(file) == IF file.exists THEN file.data ELSE <<>>

\* load_instance_ips, lines 215-217: json.load raises on a file that exists and
\* does not hold JSON; nothing catches it.
JSONDecodeError == instance_ips_file.exists /\ corrupt

\* The exception leaves the step and main().
LoadCrashes ==
    /\ pc' = "crashed"
    /\ failed_request' = [op |-> "load_instance_ips", node |-> 0]
    /\ UNCHANGED <<workerVars, pos, passes, all_finished, dispatched, answers, fetched,
                   result_files, results>>

\* The node a registry entry's address leads to (public address, else private).
NodeOf(instance) == instance.InstanceId

\* Members of the registry the round works on.
Members == {NodeOf(load_instance_ips(instance_ips_file)[k]) :
                k \in DOMAIN load_instance_ips(instance_ips_file)}

\* main(), choice 2: a round starts with start_test_on_slaves. The model follows
\* one round, from the menu until main() is back at the menu (pc = "done").
StartRound ==
    /\ pc = "menu"
    /\ pc' = "dispatch"
    /\ pos' = 1
    /\ passes' = 0
    /\ all_finished' = FALSE
    /\ down_at_start' = {n \in Members : ~reachable[n]}
    /\ dispatched' = {}
    /\ answers' = [n \in Ids |-> <<>>]
    /\ fetched' = [n \in Ids |-> "none"]
    /\ results' = [none |-> FALSE, files |-> <<>>]
    /\ failed_request' = NoRequest
    /\ UNCHANGED <<fleetVars, analyzeVars, load_test_dir, workerVars, reachable, result_files>>

\* Entering monitor_tests_on_slaves: the first pass of the while loop.
EnterMonitor ==
    /\ pc' = "poll"
    /\ pos' = 1
    /\ passes' = 1
    /\ all_finished' = TRUE

\* start_test_on_slaves: POST /start-test to the member at pos; requests.post
\* raises when the member cannot be reached and nothing catches it.
start_test_on_slaves ==
    /\ pc = "dispatch"
    /\ LET ips_data == load_instance_ips(instance_ips_file)
       IN IF JSONDecodeError
          THEN LoadCrashes
          ELSE
          IF ips_data = <<>>
          THEN /\ pc' = "poll"
               /\ UNCHANGED <<pos, passes, all_finished, dispatched, workerVars,
                              failed_request>>
          ELSE LET n == NodeOf(ips_data[pos])
               IN IF ~reachable[n]
                  THEN /\ pc' = "crashed"
                       /\ failed_request' = [op |-> "start-test", node |-> n]
                       /\ UNCHANGED <<pos, passes, all_finished, dispatched, workerVars>>
                  ELSE /\ start_test(n)
                       /\ UNCHANGED failed_request
                       /\ dispatched' = dispatched \cup {n}
                       /\ IF pos = Len(ips_data)
                          THEN EnterMonitor
                          ELSE /\ pos' = pos + 1
                               /\ UNCHANGED <<pc, passes, all_finished>>
    /\ UNCHANGED <<fleetVars, analyzeVars, load_test_dir, reachable, down_at_start, answers, fetched, result_files, results>>

\* Variant of PollFlag that keeps only the last member's answer.
PollFlagLastOnly(flag, status) == status # "Running"

\* monitor_tests_on_slaves, lines 251-255: a Running answer clears all_finished.
PollFlag(flag, status) == IF status = "Running" THEN FALSE ELSE flag

\* monitor_tests_on_slaves: GET /check-status of the member at pos.
monitor_tests_on_slaves ==
    /\ pc = "poll"
    /\ LET ips_data == load_instance_ips(instance_ips_file)
       IN IF JSONDecodeError
          THEN LoadCrashes
          ELSE
          IF ips_data = <<>>
          THEN /\ pc' = "collect"
               /\ UNCHANGED <<pos, all_finished, answers,
                              workerVars, failed_request>>
          ELSE LET n == NodeOf(ips_data[pos])
               IN IF ~reachable[n]
                  THEN /\ pc' = "crashed"
                       /\ failed_request' = [op |-> "check-status", node |-> n]
                       /\ UNCHANGED <<pos, all_finished, answers, workerVars>>
                  ELSE /\ check_status(n)
                       /\ UNCHANGED failed_request
                       /\ answers' = [answers EXCEPT ![n] = Append(@, StatusOf(n))]
                       /\ all_finished' = PollFlag(all_finished, StatusOf(n))
                       /\ IF pos = Len(ips_data)
                          THEN pc' = "sleep" /\ UNCHANGED pos
                          ELSE pos' = pos + 1 /\ UNCHANGED pc
    /\ UNCHANGED <<fleetVars, analyzeVars, load_test_dir, reachable, passes, down_at_start, dispatched,
                   fetched, result_files, results>>

\* Variant of LoopAgain that always repeats the pass.
LoopAgainAlways(flag) == TRUE

\* Variant of LoopAgain that never repeats the pass.
LoopAgainNever(flag) == FALSE

\* monitor_tests_on_slaves, line 244: while not all_finished.
LoopAgain(flag) == ~flag

\* monitor_tests_on_slaves, lines 244-256: after the sleep the loop ends when
\* all_finished, else the next pass starts.
PassEnd ==
    /\ pc = "sleep"
    /\ IF LoopAgain(all_finished)
       THEN /\ passes < MaxPasses
            /\ passes' = passes + 1
            /\ all_finished' = TRUE
            /\ pos' = 1
            /\ pc' = "poll"
       ELSE /\ pc' = "collect"
            /\ pos' = 1
            /\ UNCHANGED <<passes, all_finished>>
    /\ UNCHANGED <<fleetVars, analyzeVars, load_test_dir, workerVars, reachable, down_at_start, dispatched,
                   answers, fetched, result_files,
                   results, failed_request>>

\* collect_results_from_slaves: GET /get-results of the member at pos; the
\* answer's content is written to <id>_results.jtl whatever its status code,
\* and the file is appended to all_results.
collect_results_from_slaves ==
    /\ pc = "collect"
    /\ LET ips_data == load_instance_ips(instance_ips_file)
       IN IF JSONDecodeError
          THEN LoadCrashes
          ELSE
          IF ips_data = <<>>
          THEN /\ pc' = "analyze"
               /\ results' = [none |-> TRUE, files |-> <<>>]
               /\ UNCHANGED <<pos, fetched, result_files, workerVars, failed_request>>
          ELSE LET n == NodeOf(ips_data[pos])
               IN IF ~reachable[n]
                  THEN /\ pc' = "crashed"
                       /\ fetched' = [fetched EXCEPT ![n] = "neterr"]
                       /\ failed_request' = [op |-> "get-results", node |-> n]
                       /\ UNCHANGED <<pos, result_files, results, workerVars>>
                  ELSE /\ get_results(n)
                       /\ UNCHANGED failed_request
                       /\ fetched' = [fetched EXCEPT ![n] =
                              IF get_latest_results_file(n) # 0 THEN "ok" ELSE "notfound"]
                       /\ result_files' = [result_files EXCEPT ![n] =
                              IF get_latest_results_file(n) # 0
                              THEN get_latest_results_file(n) ELSE -1]
                       /\ results' = [results EXCEPT !.files = Append(@, n)]
                       /\ IF pos = Len(ips_data)
                          THEN pc' = "analyze" /\ pos' = 1
                          ELSE pos' = pos + 1 /\ UNCHANGED pc
    /\ UNCHANGED <<fleetVars, analyzeVars, load_test_dir, reachable, passes, all_finished, down_at_start,
                   dispatched, answers>>

\* analyze_collected_results: iterating None raises; analyze_results raises on
\* a file that holds the 404 answer (no responseCode column); after the last
\* file main() is back at the menu.
analyze_collected_results ==
    /\ pc = "analyze"
    /\ IF results.none
       THEN pc' = "crashed" /\ UNCHANGED pos
       ELSE IF result_files[results.files[pos]] = -1
            THEN pc' = "crashed" /\ UNCHANGED pos
            ELSE IF pos = Len(results.files)
                 THEN pc' = "done" /\ pos' = 1
                 ELSE pos' = pos + 1 /\ UNCHANGED pc
    /\ UNCHANGED <<fleetVars, analyzeVars, load_test_dir, workerVars, reachable, passes, all_finished,
                   down_at_start, dispatched, answers,
                   fetched, result_files, results, failed_request>>

\* A member stops answering (network failure, instance gone).
NodeFails ==
    /\ \E n \in Members :
          /\ reachable[n]
          /\ reachable' = [reachable EXCEPT ![n] = FALSE]
    /\ UNCHANGED <<fleetVars, analyzeVars, load_test_dir, workerVars, masterVars>>

\* Starter threads and executors of the fleet's workers.
WorkersRun ==
    /\ \E n \in Members : WorkerStep(n)
    /\ UNCHANGED <<fleetVars, analyzeVars, load_test_dir, masterVars, reachable>>

\* ------------------------------------------------------------------ analyze_results
\* A data row of a .jtl file: the responseCode text, the responseMessage text,
\* and whether the line holds as many fields as the header.
Row(code, message) == [code |-> code, message |-> message, fields |-> "header"]

\* A line that holds more fields than the header.
LongRow == [code |-> "", message |-> "", fields |-> "more"]

\* pd.read_csv, line 44: a line with more fields than the header raises
\* ParserError (lines are not skipped: on_bad_lines is left at its default).
ParserError(rows) == \E k \in DOMAIN rows : rows[k].fields = "more"

\* The responseCode texts that are numerals, with their values.
Numeral ==
    ("100" :> 100) @@ ("200" :> 200) @@ ("302" :> 302) @@ ("404" :> 404) @@
    ("500" :> 500) @@ ("503" :> 503) @@ ("700" :> 700)

\* pd.to_numeric(errors='coerce'), line 46: the number, or NaN for any other text.
to_numeric(text) ==
    IF text \in DOMAIN Numeral
    THEN [isna |-> FALSE, value |-> Numeral[text]]
    ELSE [isna |-> TRUE, value |-> 0]

\* The responseCode column is float64 when it holds a NaN, else int64.
Float64(rows) == \E k \in DOMAIN rows : to_numeric(rows[k].code).isna

\* str(status), line 77: "700" for an int64 value, "700.0" for a float64 one.
str_status(status, float64) ==
    IF float64 THEN ToString(status.value) \o ".0" ELSE ToString(status.value)

Buckets == {"2xx", "3xx", "4xx", "5xx", "other"}

\* Variant of Bucket that knows no 3xx range.
BucketWithout3xx(status) ==
    IF status.isna THEN "other"
    ELSE IF 200 <= status.value /\ status.value < 300 THEN "2xx"
    ELSE IF 400 <= status.value /\ status.value < 500 THEN "4xx"
    ELSE IF 500 <= status.value /\ status.value < 600 THEN "5xx"
    ELSE "other"

\* Lines 63-77: the bucket a row is counted in.
Bucket(status) ==
    IF status.isna THEN "other"
    ELSE IF 200 <= status.value /\ status.value < 300 THEN "2xx"
    ELSE IF 300 <= status.value /\ status.value < 400 THEN "3xx"
    ELSE IF 400 <= status.value /\ status.value < 500 THEN "4xx"
    ELSE IF 500 <= status.value /\ status.value < 600 THEN "5xx"
    ELSE "other"

\* Lines 65, 74, 77: the key a row is counted under in other_errors or
\* error_5xx: its message, or str(status) for a number outside 200..599.
ErrorKey(status, message, float64) ==
    IF status.isna \/ Bucket(status) = "5xx" THEN message ELSE str_status(status, float64)

\* Variant of Counted that leaves the other bucket alone.
CountedExceptOther(counts, status) ==
    IF Bucket(status) = "other" THEN counts
    ELSE [counts EXCEPT ![Bucket(status)] = @ + 1]

\* status_counts[bucket] += 1
Counted(counts, status) == [counts EXCEPT ![Bucket(status)] = @ + 1]

\* d[key] = d.get(key, 0) + 1 on a dict, which keeps its keys in insertion order.
Incremented(d, key) ==
    IF \E k \in DOMAIN d : d[k].key = key
    THEN [k \in DOMAIN d |-> IF d[k].key = key THEN [d[k] EXCEPT !.count = @ + 1] ELSE d[k]]
    ELSE Append(d, [key |-> key, count |-> 1])

\* Variant of InsertDesc that puts an item before the items of equal count.
InsertDescBeforeTies(sorted, item) ==
    LET k == Cardinality({a \in DOMAIN sorted : sorted[a].count > item.count})
    IN SubSeq(sorted, 1, k) \o <<item>> \o SubSeq(sorted, k + 1, Len(sorted))

\* sorted(..., key=count, reverse=True) is stable: an item goes behind the
\* items of greater or equal count that precede it in the dict.
InsertDesc(sorted, item) ==
    LET k == Cardinality({a \in DOMAIN sorted : sorted[a].count >= item.count})
    IN SubSeq(sorted, 1, k) \o <<item>> \o SubSeq(sorted, k + 1, Len(sorted))

RECURSIVE sorted_desc(_)
\* Lines 84 and 91: sorted(d.items(), key=lambda item: item[1], reverse=True).
sorted_desc(items) ==
    IF items = <<>> THEN <<>>
    ELSE InsertDesc(sorted_desc(SubSeq(items, 1, Len(items) - 1)), items[Len(items)])

\* Lines 85 and 92: the slice [:3].
TopN == 3

\* Lines 83-95: the top list is printed only when the bucket's count is positive.
top_errors(count, d) ==
    IF count > 0
    THEN SubSeq(sorted_desc(d), 1, IF Len(d) < TopN THEN Len(d) ELSE TopN)
    ELSE <<>>

NoCounts == [b \in Buckets |-> 0]

\* analyze_results, lines 44-57: read the file and start with empty counts.
read_csv ==
    /\ apc = "read"
    /\ IF ParserError(all_results[file_no])
       THEN /\ apc' = "crashed"
            /\ UNCHANGED <<row_no, status_counts, other_errors, error_5xx>>
       ELSE /\ apc' = "rows"
            /\ row_no' = 1
            /\ status_counts' = NoCounts
            /\ other_errors' = <<>>
            /\ error_5xx' = <<>>
    /\ UNCHANGED <<all_results, file_no, printed>>
    /\ UNCHANGED <<fleetVars, workerVars, masterVars, reachable, load_test_dir>>

\* analyze_results, lines 59-77: one pass of the loop over df.iterrows().
iterrows ==
    /\ apc = "rows"
    /\ row_no <= Len(all_results[file_no])
    /\ LET rows == all_results[file_no]
           status == to_numeric(rows[row_no].code)
           key == ErrorKey(status, rows[row_no].message, Float64(rows))
       IN /\ status_counts' = Counted(status_counts, status)
          /\ other_errors' = IF Bucket(status) = "other"
                             THEN Incremented(other_errors, key) ELSE other_errors
          /\ error_5xx' = IF Bucket(status) = "5xx"
                          THEN Incremented(error_5xx, key) ELSE error_5xx
    /\ row_no' = row_no + 1
    /\ UNCHANGED <<all_results, apc, file_no, printed>>
    /\ UNCHANGED <<fleetVars, workerVars, masterVars, reachable, load_test_dir>>

\* analyze_results, lines 79-95: print the counts and the top lists of this
\* file; analyze_collected_results (master.py 280-282) then takes the next file.
print_report ==
    /\ apc = "rows"
    /\ row_no > Len(all_results[file_no])
    /\ printed' = Append(printed,
          [file |-> file_no,
           status_counts |-> status_counts,
           other_errors |-> other_errors,
           error_5xx |-> error_5xx,
           top_other_errors |-> top_errors(status_counts["other"], other_errors),
           top_5xx_errors |-> top_errors(status_counts["5xx"], error_5xx)])
    /\ IF file_no < Len(all_results)
       THEN file_no' = file_no + 1 /\ apc' = "read"
       ELSE apc' = "done" /\ UNCHANGED file_no
    /\ UNCHANGED <<all_results, row_no, status_counts, other_errors, error_5xx>>
    /\ UNCHANGED <<fleetVars, workerVars, masterVars, reachable, load_test_dir>>

\* ------------------------------------------------------------------ specification
WorkersIdle ==
    /\ jmeter_process = [n \in Ids |-> 0]
    /\ thread = [n \in Ids |-> [t \in Runs |-> "none"]]
    /\ proc = [n \in Ids |-> [t \in Runs |-> "none"]]
    /\ results_file = [n \in Ids |-> 0]
    /\ last_response = [n \in Ids |-> NoResponse]
    /\ load_test_dir = [n \in Ids |-> [name \in Filenames |-> 0]]

MasterAtMenu ==
    /\ pc = "menu"
    /\ pos = 1
    /\ passes = 0
    /\ all_finished = FALSE
    /\ down_at_start = {}
    /\ dispatched = {}
    /\ answers = [n \in Ids |-> <<>>]
    /\ fetched = [n \in Ids |-> "none"]
    /\ result_files = [n \in Ids |-> 0]
    /\ results = [none |-> FALSE, files |-> <<>>]
    /\ failed_request = NoRequest

AnalyzerIdle ==
    /\ all_results = <<>>
    /\ apc = "idle"
    /\ file_no = 1
    /\ row_no = 1
    /\ status_counts = NoCounts
    /\ other_errors = <<>>
    /\ error_5xx = <<>>
    /\ printed = <<>>

\* The state after construction: no registry file, no instance, idle workers.
Init ==
    /\ instance_ips_file = NoFile
    /\ corrupt = FALSE
    /\ cloud = [n \in Ids |-> NoInstance]
    /\ hist = EnvStep
    /\ WorkersIdle
    /\ MasterAtMenu
    /\ reachable = [n \in Ids |-> TRUE]
    /\ AnalyzerIdle

Launch ==
    /\ \E count \in 1..MaxInst : launch_instances(count)
    /\ UNCHANGED <<workerVars, masterVars, reachable, corrupt, analyzeVars, load_test_dir>>

Reconcile ==
    /\ find_existing_instances
    /\ UNCHANGED <<workerVars, masterVars, reachable, corrupt, analyzeVars, load_test_dir>>

Terminate ==
    /\ terminate_instances
    /\ UNCHANGED <<workerVars, masterVars, reachable, corrupt, analyzeVars, load_test_dir>>

Stop ==
    /\ \E n \in Ids : StopInstance(n)
    /\ UNCHANGED <<workerVars, masterVars, reachable, corrupt, analyzeVars, load_test_dir>>

BecomeRunning ==
    /\ \E n \in Ids : InstanceRunning(n)
    /\ UNCHANGED <<workerVars, masterVars, reachable, corrupt, analyzeVars, load_test_dir>>

ExternalTermination ==
    /\ \E n \in Ids : TerminateExternally(n)
    /\ UNCHANGED <<workerVars, masterVars, reachable, corrupt, analyzeVars, load_test_dir>>

FleetNext ==
    \/ Launch
    \/ Reconcile
    \/ Terminate
    \/ Stop
    \/ BecomeRunning
    \/ ExternalTermination

SpecFleet == Init /\ [][FleetNext]_vars

\* ---- one worker node serving requests from any client
ClientStartTest ==
    /\ start_test(1)
    /\ UNCHANGED <<fleetVars, analyzeVars, load_test_dir, masterVars, reachable>>

ClientCheckStatus ==
    /\ check_status(1)
    /\ UNCHANGED <<fleetVars, analyzeVars, load_test_dir, masterVars, reachable>>

ClientSyncJmx ==
    /\ \E file \in Uploads : sync_jmx(1, file)
    /\ UNCHANGED <<fleetVars, analyzeVars, masterVars, reachable>>

ClientGetResults ==
    /\ get_results(1)
    /\ UNCHANGED <<fleetVars, analyzeVars, load_test_dir, masterVars, reachable>>

StarterClears ==
    /\ \E t \in Runs : ThreadClear(1, t)
    /\ UNCHANGED <<fleetVars, analyzeVars, load_test_dir, masterVars, reachable>>

StarterPopens ==
    /\ \E t \in Runs : ThreadPopen(1, t)
    /\ UNCHANGED <<fleetVars, analyzeVars, load_test_dir, masterVars, reachable>>

StarterAssigns ==
    /\ \E t \in Runs : ThreadAssign(1, t)
    /\ UNCHANGED <<fleetVars, analyzeVars, load_test_dir, masterVars, reachable>>

ExecutorWritesFile ==
    /\ \E t \in Runs : ExecutorWrites(1, t)
    /\ UNCHANGED <<fleetVars, analyzeVars, load_test_dir, masterVars, reachable>>

ExecutorExit ==
    /\ \E t \in Runs : ExecutorExits(1, t)
    /\ UNCHANGED <<fleetVars, analyzeVars, load_test_dir, masterVars, reachable>>

WorkerNext ==
    \/ ClientStartTest
    \/ ClientCheckStatus
    \/ ClientGetResults
    \/ ClientSyncJmx
    \/ StarterClears
    \/ StarterPopens
    \/ StarterAssigns
    \/ ExecutorWritesFile
    \/ ExecutorExit

SpecWorker == Init /\ [][WorkerNext]_vars

\* ---- one orchestrator over a launched fleet
\* A fleet of K running instances as launch_instances leaves it.
LaunchedFleet(K) ==
    [n \in Ids |-> IF n <= K THEN [state |-> "running", pub |-> 1, index |-> n]
                   ELSE NoInstance]

RoundInit ==
    /\ \E K \in 0..MaxInst :
          /\ cloud = LaunchedFleet(K)
          /\ instance_ips_file \in
                {NoFile} \cup
                {LaunchWrite(NoFile, get_instance_public_ips(cloud, [k \in 1..K |-> k]))}
          /\ (K > 0 => instance_ips_file.exists)
    /\ corrupt \in BOOLEAN
    /\ corrupt => instance_ips_file = LaunchWrite(NoFile, <<>>)
    /\ hist = EnvStep
    /\ WorkersIdle
    /\ MasterAtMenu
    /\ reachable \in [Ids -> BOOLEAN]
    /\ \A n \in Ids \ Members : reachable[n]
    /\ AnalyzerIdle

RoundNext ==
    \/ StartRound
    \/ start_test_on_slaves
    \/ monitor_tests_on_slaves
    \/ PassEnd
    \/ collect_results_from_slaves
    \/ analyze_collected_results
    \/ NodeFails
    \/ WorkersRun

SpecRound == RoundInit /\ [][RoundNext]_vars

\* A round in which every request gets through: all members can be reached
\* and none fails.
ReachableRoundInit ==
    /\ RoundInit
    /\ \A n \in Ids : reachable[n]

ReachableRoundNext ==
    \/ StartRound
    \/ start_test_on_slaves
    \/ monitor_tests_on_slaves
    \/ PassEnd
    \/ collect_results_from_slaves
    \/ analyze_collected_results
    \/ WorkersRun

\* That round with fair scheduling: main() goes on whenever it can (requests
\* are answered, time.sleep returns), and the workers' starter threads and
\* executors keep running (threads are scheduled, executors exit).
SpecRoundFair ==
    /\ ReachableRoundInit
    /\ [][ReachableRoundNext]_vars
    /\ WF_vars(StartRound)
    /\ WF_vars(start_test_on_slaves)
    /\ WF_vars(monitor_tests_on_slaves)
    /\ WF_vars(PassEnd)
    /\ WF_vars(collect_results_from_slaves)
    /\ WF_vars(analyze_collected_results)
    /\ WF_vars(WorkersRun)

\* ---- analyze_collected_results over collected files of any content
\* The rows the files are made of: every bucket, two messages per error
\* table, numbers below and above the ranges, a missing and a textual code,
\* and a line with too many fields.
RowAlphabet ==
    {Row("200", "OK"), Row("302", "Found"), Row("404", "Not Found"),
     Row("503", "ServerErr"), Row("500", "timeout"),
     Row("", "timeout"), Row("Non HTTP response code", "Connection refused"),
     Row("100", "Continue"), Row("700", "Unknown"), LongRow}

RECURSIVE Sum(_, _)
\* lens[1] + .. + lens[k]
Sum(lens, k) == IF k = 0 THEN 0 ELSE Sum(lens, k - 1) + lens[k]

\* The rows cut into files of the lengths lens.
Split(rows, lens) ==
    [f \in DOMAIN lens |-> SubSeq(rows, Sum(lens, f - 1) + 1, Sum(lens, f))]

\* Messages of twenty 5xx rows with counts 5, 5, 3, 3, 3, 1 for m1 .. m6,
\* first seen in the order m3, m1, m6, m2, m4, m5.
Example14Messages ==
    <<"m3", "m1", "m6", "m2", "m4", "m5", "m1", "m1", "m1", "m1",
      "m2", "m2", "m2", "m2", "m3", "m3", "m4", "m4", "m5", "m5">>

Example14 == [k \in DOMAIN Example14Messages |-> Row("503", Example14Messages[k])]

Example15 ==
    <<Row("200", "-"), Row("200", "-"), Row("503", "ServerErr"), Row("503", "ServerErr"),
      Row("", "timeout")>>

\* One file per member, of at most MaxRows rows together, or one of the two
\* example files.
Inputs(collected) ==
    \/ \E files \in 1..MaxInst, n \in 0..MaxRows :
          \E rows \in [1..n -> RowAlphabet], lens \in [1..files -> 0..n] :
             /\ Sum(lens, files) = n
             /\ collected = Split(rows, lens)
    \/ collected = <<Example14>>
    \/ collected = <<Example15>>

AnalyzeInit ==
    /\ instance_ips_file = NoFile
    /\ corrupt = FALSE
    /\ cloud = [n \in Ids |-> NoInstance]
    /\ hist = EnvStep
    /\ WorkersIdle
    /\ MasterAtMenu
    /\ reachable = [n \in Ids |-> TRUE]
    /\ Inputs(all_results)
    /\ apc = "read"
    /\ file_no = 1
    /\ row_no = 1
    /\ status_counts = NoCounts
    /\ other_errors = <<>>
    /\ error_5xx = <<>>
    /\ printed = <<>>

AnalyzeNext ==
    \/ read_csv
    \/ iterrows
    \/ print_report

SpecAnalyze == AnalyzeInit /\ [][AnalyzeNext]_vars

\* ------------------------------------------------------------------ round claims
\* C1 (as stated): in a round in which some member cannot answer /health, the
\* /start-test handler runs on no member.
C1_HealthGate ==
    down_at_start # {} => dispatched = {}

\* The poll step of the current round has returned after polling the members.
PollReturned ==
    /\ Members # {}
    /\ passes >= 1
    /\ pc \in {"collect", "analyze", "done"}

\* The member answered Running at its first T-1 polls and Completed from the T-th on.
RunningThenCompleted(n, T) ==
    /\ Len(answers[n]) >= T
    /\ \A k \in 1..Len(answers[n]) :
          answers[n][k] = (IF k < T THEN "Running" ELSE "Completed")

\* The last poll at which the member answered Running (0 when it never did).
LastRunning(n) ==
    LET at == {k \in DOMAIN answers[n] : answers[n][k] = "Running"}
    IN IF at = {} THEN 0 ELSE CHOOSE k \in at : \A l \in at : l <= k

\* The first pass in which no member answers Running.
PassesNeeded ==
    1 + (CHOOSE k \in {LastRunning(m) : m \in Members} :
            \A m \in Members : LastRunning(m) <= k)

\* C4 (as stated): a member that answers Running T-1 times and Completed from
\* then on has received exactly T status calls when the poll step returns.
C4_ExactlyTCalls ==
    PollReturned =>
        \A n \in Members : \A T \in 1..(MaxPasses + 1) :
            RunningThenCompleted(n, T) => Len(answers[n]) = T

\* C4 (amended): when the poll step returns, every member has received as many
\* status calls as there were passes, which is the largest T over the members;
\* a member that completes at its T-th poll has received at least T calls.
C4_CallsEqualPasses ==
    PollReturned =>
        \A n \in Members :
            /\ Len(answers[n]) = PassesNeeded
            /\ Len(answers[n]) = passes
            /\ \A T \in 1..(MaxPasses + 1) :
                  RunningThenCompleted(n, T) => T <= Len(answers[n])

\* C4 witness: the poll step returned with one member that completed at its
\* first poll and another one that completed later.
C4_Witness ==
    /\ PollReturned
    /\ \E n, m \in Members : \E T \in 2..MaxPasses :
          /\ RunningThenCompleted(n, 1)
          /\ RunningThenCompleted(m, T)
          /\ Len(answers[n]) = T

\* Every member answered in pass p, and none answered Running.
QuietPass(p) ==
    \A n \in Members : Len(answers[n]) >= p /\ answers[n][p] # "Running"

\* C5: the poll step ends with the first pass in which no member answers
\* Running: once results are being collected or analyzed the last pass was
\* such a pass, while the loop is polling no earlier pass was one, and at the
\* end of a pass all_finished tells whether it was one.
C5_PollEndsOnQuietPass ==
    Members # {} =>
        /\ (pc \in {"collect", "analyze"} \/ \E n \in Members : fetched[n] # "none")
              => (passes >= 1 /\ QuietPass(passes)
                    /\ \A n \in Members : Len(answers[n]) = passes)
        /\ pc \in {"poll", "sleep"} => \A p \in 1..(passes - 1) : ~QuietPass(p)
        /\ pc = "sleep" => (all_finished <=> QuietPass(passes))

\* C5 witness: results are being collected after a round of two members that
\* took more than one pass.
C5_Witness ==
    /\ pc = "collect"
    /\ Cardinality(Members) >= 2
    /\ passes >= 2
    /\ \E n \in Members : fetched[n] # "none"

\* C10 (as stated): a member whose /get-results call fails (network error or
\* 404) has no file in the list handed to analyze_collected_results, and the
\* round goes on.
C10_FailedFetchExcluded ==
    \A n \in Members :
        fetched[n] \in {"notfound", "neterr"} =>
            /\ n \notin Range(results.files)
            /\ pc # "crashed"

\* C11 (as stated): a /check-status request that fails for one member during
\* the poll step does not end the round; main() goes on.
C11_PollSurvivesFailedStatus ==
    failed_request.op = "check-status" => pc # "crashed"

\* C12 (as stated): a failing dispatch is confined to its member: once the
\* dispatch step is over, the /start-test handler has run on every member that
\* can be reached.
C12_DispatchReachesEveryMember ==
    pc \notin {"menu", "dispatch"} =>
        \A n \in Members : reachable[n] => n \in dispatched

\* C18 (as stated): loading the registry file never fails; with a missing or a
\* corrupt file every reader goes on as for an empty fleet.
C18_LoadNeverFails ==
    (~instance_ips_file.exists \/ corrupt) => failed_request.op # "load_instance_ips"

\* C24 (as stated): the round is past the poll step only when no run it
\* dispatched is still being started or still running on a worker.
C24_CollectOnlyAfterRunsFinished ==
    pc \in {"collect", "analyze", "done"} =>
        \A n \in dispatched : \A t \in Runs : ~Incomplete(n, t)

\* Every request of the round gets through.
AllRequestsSucceed == \A n \in Members : reachable[n]

\* The model's last pass has ended with a member answering Running: the loop
\* of the program goes on from here.
StillRunningAtLastPass ==
    /\ pc = "sleep"
    /\ passes = MaxPasses
    /\ ~QuietPass(passes)

\* C25: when every request succeeds and threads and executors are scheduled
\* fairly, a round that has entered the poll loop leaves it and reaches the
\* collection and the analysis, unless a member keeps answering Running.
C25_RoundReachesAnalysis ==
    (pc = "poll") ~> (pc \in {"analyze", "done"} \/ StillRunningAtLastPass)

\* C25 witness: a round in which every request succeeded has reached the
\* analysis after a pass in which a member answered Running.
C25_Witness ==
    /\ pc = "analyze"
    /\ AllRequestsSucceed
    /\ passes >= 2
    /\ \E n \in Members : answers[n][1] = "Running"
    /\ \A n \in Members : fetched[n] # "none"

\* The registry the round works on has no member: instance_ips.json is missing
\* or holds an empty list.
EmptyRegistry == ~JSONDecodeError /\ load_instance_ips(instance_ips_file) = <<>>

\* C26: a round on an empty registry dispatches nothing, polls nothing,
\* fetches nothing, and ends normally: no step of it raises, the hand-off to
\* the analysis included.
C26_EmptyRoundEndsNormally ==
    EmptyRegistry =>
        /\ dispatched = {}
        /\ \A n \in Ids : answers[n] = <<>> /\ fetched[n] = "none"
        /\ pc # "crashed"

\* ------------------------------------------------------------------ worker claims
\* C2 (as stated): a dispatch request that arrives while an accepted run has
\* not completed is answered with a rejection.
C2_SecondDispatchRejected ==
    \A n \in Ids :
        (last_response[n].op = "start" /\ last_response[n].busy)
            => last_response[n].code = 400

\* C3 (as stated): at most one executor process is alive on a node, and the
\* node's executor reference designates it (required here only once no starter
\* thread is still on its way to storing a handle).
C3_OneExecutorAlive ==
    \A n \in Ids :
        LET alive == {t \in Runs : proc[n][t] \in {"alive", "writing"}}
            starting == {t \in Runs : thread[n][t] \in {"started", "cleared", "popened"}}
        IN /\ Cardinality(alive) <= 1
           /\ starting = {} => \A t \in alive : jmeter_process[n] = t

\* C20 (as stated): /check-status answers Idle ("No test running"), Running or
\* Completed, and while an accepted run has not yet exited it answers Running.
C20_StatusFollowsExecutor ==
    \A n \in Ids :
        last_response[n].op = "status" =>
            /\ last_response[n].body \in {"No test running", "Running", "Completed"}
            /\ last_response[n].busy => last_response[n].body = "Running"

\* C21 (as stated): the status of a node never goes from Completed back to
\* Running or to idle ("No test running"), nor from Running back to idle.
C21_StatusNeverGoesBack ==
    [][/\ StatusOf(1) = "Completed" => StatusOf(1)' = "Completed"
       /\ StatusOf(1) = "Running" => StatusOf(1)' # "No test running"]_vars

\* C21: the status of a node never goes back to idle, and it goes from
\* Completed to Running only when the run_test thread of another accepted
\* dispatch stores its handle.
C21_StatusNeverBackToIdle ==
    [][/\ StatusOf(1) # "No test running" => StatusOf(1)' # "No test running"
       /\ (StatusOf(1) = "Completed" /\ StatusOf(1)' = "Running") =>
              \E t \in Runs : /\ thread[1][t] = "popened"
                               /\ thread'[1][t] = "done"
                               /\ jmeter_process'[1] = t
                               /\ proc[1][t] \in {"alive", "writing"}]_vars

\* C21 witness: the node last answered Completed and, after a further
\* accepted dispatch, its status is Running.
C21_Witness ==
    /\ last_response[1].op = "status"
    /\ last_response[1].body = "Completed"
    /\ StatusOf(1) = "Running"

\* C22 (as stated): a /get-results request that is answered with an artifact
\* is answered with the artifact of the most recently accepted dispatch.
C22_FetchReturnsLatestRun ==
    [][(ClientGetResults /\ get_latest_results_file(1) # 0) =>
          get_latest_results_file(1) = NextRun(1) - 1]_vars

\* The name ends in the four characters ".jmx".
IsJmxName(name) ==
    /\ Len(name) >= 4
    /\ name[Len(name) - 3] = "."
    /\ name[Len(name) - 2] = "j"
    /\ name[Len(name) - 1] = "m"
    /\ name[Len(name)] = "x"

\* C23: a /sync-jmx request with a file named *.jmx is answered 200 and leaves
\* the directory as it was except that the name now holds the uploaded
\* content (so a second upload of the same file changes nothing and a later
\* content replaces the earlier one); any other request is answered 400 and
\* leaves the directory unchanged.
C23_SyncIdempotentAndGated ==
    [][\A file \in Uploads :
          sync_jmx(1, file) =>
             IF file.present /\ IsJmxName(file.filename)
             THEN /\ load_test_dir'[1] =
                        [name \in Filenames |->
                            IF name = file.filename THEN file.content
                            ELSE load_test_dir[1][name]]
                  /\ Saved(load_test_dir'[1], file) = load_test_dir'[1]
                  /\ last_response'[1].code = 200
             ELSE /\ load_test_dir' = load_test_dir
                  /\ last_response'[1].code = 400]_vars

\* C23 witness: the node has answered a /sync-jmx request with 200 and holds
\* two stored files, one of them with the second content (a replaced upload
\* or a first one).
C23_Witness ==
    /\ last_response[1].op = "sync"
    /\ last_response[1].code = 200
    /\ Cardinality({name \in Filenames : load_test_dir[1][name] # 0}) >= 2
    /\ \E name \in Filenames : load_test_dir[1][name] = MaxContents

\* ------------------------------------------------------------------ registry claims
LaunchDone == hist.op = "launch" /\ hist.outcome = "ok"

ReconcileDone == hist.op = "reconcile" /\ hist.outcome = "ok"

\* C6 (as stated): after a successful launch the registry file holds every
\* member it held before the launch together with the newly launched ones.
C6_LaunchKeepsEarlierMembers ==
    LaunchDone =>
        /\ IdsOf(hist.pre.data) \subseteq IdsOf(instance_ips_file.data)
        /\ Len(instance_ips_file.data) = Len(hist.pre.data) + Cardinality(hist.new)

\* C7 (as stated): the index given to a newly launched member is strictly
\* greater than every index given to a member launched before it.
C7_IndexNeverReused ==
    (hist.op = "launch" /\ hist.new # {}) =>
        \A i \in hist.new : \A j \in Described(cloud) \ hist.new :
            cloud[i].index > cloud[j].index

\* The entry the provider describes for instance i in the current state.
DescribedEntry(i) ==
    [InstanceId |-> i, PublicIpAddress |-> cloud[i].pub, PrivateIpAddress |-> i]

\* Number of leading entries of the file after reconcile that were in it before.
KeptLen == Cardinality({k \in DOMAIN hist.pre.data : hist.pre.data[k].InstanceId \in hist.ids})

\* C8: after a successful reconcile the file's ids are exactly the discovered
\* non-terminated instances; the entries kept from the old file come first, in
\* their old order and with their old data; the entries after them are the
\* discovered instances the old file did not hold.
C8_ReconcileMerges ==
    ReconcileDone =>
        LET pre == hist.pre.data
            post == instance_ips_file.data
        IN /\ instance_ips_file.exists
           /\ IdsOf(post) = {i \in Ids : cloud[i].state \notin {"absent", "terminated"}}
           /\ KeptLen <= Len(post)
           /\ \A k \in 1..KeptLen :
                 \E a \in DOMAIN pre :
                    /\ pre[a] = post[k]
                    /\ \A l \in 1..(k - 1) : \E b \in 1..(a - 1) : pre[b] = post[l]
           /\ \A k \in (KeptLen + 1)..Len(post) :
                 /\ post[k].InstanceId \notin IdsOf(pre)
                 /\ post[k] = DescribedEntry(post[k].InstanceId)

\* C8 witness: a reconcile that kept an entry whose stored address is no
\* longer the instance's address, and appended a newly discovered instance.
C8_Witness ==
    /\ ReconcileDone
    /\ KeptLen >= 1
    /\ Len(instance_ips_file.data) > KeptLen
    /\ instance_ips_file.data[1] # DescribedEntry(instance_ips_file.data[1].InstanceId)

\* C9: no instance id occurs in two entries of the registry file.
C9_RegistryIdsUnique ==
    \A a, b \in DOMAIN instance_ips_file.data :
        a # b => instance_ips_file.data[a].InstanceId # instance_ips_file.data[b].InstanceId

\* C9 witness: a reconcile appended a discovered instance to a non-empty file.
C9_Witness ==
    /\ ReconcileDone
    /\ Len(hist.pre.data) >= 1
    /\ Len(instance_ips_file.data) > Len(hist.pre.data)

\* C19: when a provider call of launch, discover/reconcile or terminate fails,
\* the registry file after the operation is the file before it.
C19_FailureKeepsRegistry ==
    hist.outcome \in {"client_error", "waiter_error"} => instance_ips_file = hist.pre

\* C19 witness: a terminate whose waiter failed after the instances of a
\* non-empty registry were terminated.
C19_Witness ==
    /\ hist.op = "terminate"
    /\ hist.outcome = "waiter_error"
    /\ hist.pre.exists
    /\ Len(hist.pre.data) >= 1
    /\ \A i \in hist.ids : cloud[i].state = "terminated"

\* ------------------------------------------------------------------ analysis claims
\* The sum of the five bucket counts.
Total(counts) ==
    counts["2xx"] + counts["3xx"] + counts["4xx"] + counts["5xx"] + counts["other"]

\* C13: while a file is analyzed the five counts add up to the rows taken so
\* far (each row adds one to exactly one bucket), and the counts of a printed
\* report add up to the number of rows of its file.
C13_CountsSumToRows ==
    /\ apc = "rows" => Total(status_counts) = row_no - 1
    /\ \A i \in DOMAIN printed :
          Total(printed[i].status_counts) = Len(all_results[printed[i].file])

\* C13 witness: a report of a file of three or more rows that fall into two
\* or more buckets.
C13_Witness ==
    \E i \in DOMAIN printed :
        /\ Len(all_results[printed[i].file]) >= 3
        /\ Cardinality({b \in Buckets : printed[i].status_counts[b] > 0}) >= 2

\* The place of a key in a table.
Pos(d, key) == CHOOSE a \in DOMAIN d : d[a].key = key

\* top is the list of the first three entries of table d by count descending,
\* entries of equal count in the order they were first seen.
IsTopThree(top, d) ==
    /\ Len(top) = IF Len(d) < 3 THEN Len(d) ELSE 3
    /\ \A k \in DOMAIN top : \E a \in DOMAIN d : d[a] = top[k]
    /\ \A k, l \in DOMAIN top :
          k < l => \/ top[k].count > top[l].count
                   \/ /\ top[k].count = top[l].count
                      /\ Pos(d, top[k].key) < Pos(d, top[l].key)
    /\ \A a \in DOMAIN d :
          d[a] \notin Range(top) =>
             \A k \in DOMAIN top :
                \/ top[k].count > d[a].count
                \/ top[k].count = d[a].count /\ Pos(d, top[k].key) < a

\* C14: every printed top list holds min(3, distinct keys) entries, by count
\* descending, ties in first-seen order; the file with counts 5, 5, 3, 3, 3, 1
\* gives the two fives and the 3 that was seen first.
C14_TopThreeOrder ==
    /\ \A i \in DOMAIN printed :
          /\ IsTopThree(printed[i].top_5xx_errors, printed[i].error_5xx)
          /\ IsTopThree(printed[i].top_other_errors, printed[i].other_errors)
    /\ (all_results = <<Example14>> /\ apc = "done") =>
          printed[1].top_5xx_errors =
             <<[key |-> "m1", count |-> 5], [key |-> "m2", count |-> 5],
               [key |-> "m3", count |-> 3]>>

\* C14 witness: a report whose 5xx table holds more than three messages, with
\* a tie between the first two and a tie at the cut.
C14_Witness ==
    \E i \in DOMAIN printed :
        /\ Len(printed[i].error_5xx) > 3
        /\ printed[i].top_5xx_errors[1].count = printed[i].top_5xx_errors[2].count
        /\ \E a \in DOMAIN printed[i].error_5xx :
              /\ printed[i].error_5xx[a] \notin Range(printed[i].top_5xx_errors)
              /\ printed[i].error_5xx[a].count = printed[i].top_5xx_errors[3].count

\* The bucket of a row by the hundreds of its code.
Hundreds(r) ==
    LET status == to_numeric(r.code)
    IN IF status.isna THEN "other"
       ELSE IF status.value \div 100 = 2 THEN "2xx"
       ELSE IF status.value \div 100 = 3 THEN "3xx"
       ELSE IF status.value \div 100 = 4 THEN "4xx"
       ELSE IF status.value \div 100 = 5 THEN "5xx"
       ELSE "other"

\* Table d counts the rows of bucket b, each under the key KeyOf gives it.
CountsUnder(d, rows, b, KeyOf(_)) ==
    /\ \A k \in DOMAIN rows :
          Hundreds(rows[k]) = b => \E a \in DOMAIN d : d[a].key = KeyOf(rows[k])
    /\ \A a \in DOMAIN d :
          d[a].count = Cardinality({k \in DOMAIN rows :
                                       Hundreds(rows[k]) = b /\ KeyOf(rows[k]) = d[a].key})
    /\ \A a, c \in DOMAIN d : a # c => d[a].key # d[c].key

\* The five counts of a report are the numbers of rows per hundreds range.
CountsByHundreds(report) ==
    \A b \in Buckets :
        report.status_counts[b] =
            Cardinality({k \in DOMAIN all_results[report.file] :
                            Hundreds(all_results[report.file][k]) = b})

\* The report of the example file of C15.
Example15Report ==
    (all_results = <<Example15>> /\ apc = "done") =>
        /\ printed[1].status_counts =
              [b \in Buckets |-> IF b \in {"2xx", "5xx"} THEN 2 ELSE IF b = "other" THEN 1 ELSE 0]
        /\ printed[1].top_5xx_errors = <<[key |-> "ServerErr", count |-> 2]>>
        /\ printed[1].top_other_errors = <<[key |-> "timeout", count |-> 1]>>

MessageOf(r) == r.message

\* C15 (as stated): every row is counted in the bucket of its hundreds range,
\* else in other, and a row counted in other or 5xx is counted in that
\* bucket's table under its message text.
C15_KeyedByMessage ==
    /\ \A i \in DOMAIN printed :
          /\ CountsByHundreds(printed[i])
          /\ CountsUnder(printed[i].error_5xx, all_results[printed[i].file], "5xx", MessageOf)
          /\ CountsUnder(printed[i].other_errors, all_results[printed[i].file], "other",
                         MessageOf)
    /\ Example15Report

\* C15: every row is counted in the bucket of its hundreds range, else in
\* other; a 5xx row is counted under its message; a row in other is counted
\* under its message when its code is no number, and under the text of the
\* code when the code is a number outside 200..599.
C15_KeyedByMessageOrCode ==
    /\ \A i \in DOMAIN printed :
          LET rows == all_results[printed[i].file]
              KeyOf(r) == IF to_numeric(r.code).isna THEN r.message
                          ELSE str_status(to_numeric(r.code), Float64(rows))
          IN /\ CountsByHundreds(printed[i])
             /\ CountsUnder(printed[i].error_5xx, rows, "5xx", MessageOf)
             /\ CountsUnder(printed[i].other_errors, rows, "other", KeyOf)
    /\ Example15Report

\* C15 witness: a report of a file with a 3xx row, a row in other whose code is
\* a number, and a row in other whose code is no number.
C15_Witness ==
    \E i \in DOMAIN printed :
        /\ printed[i].status_counts["3xx"] > 0
        /\ \E k, l \in DOMAIN all_results[printed[i].file] :
              LET rows == all_results[printed[i].file]
              IN /\ Hundreds(rows[k]) = "other" /\ ~to_numeric(rows[k].code).isna
                 /\ Hundreds(rows[l]) = "other" /\ to_numeric(rows[l].code).isna

\* C16 (as stated): with several files the analysis reports totals over all
\* of them: once it is done, a report holds for every bucket the number of rows
\* of all files in that bucket.
C16_ReportsTotals ==
    apc = "done" =>
        \E i \in DOMAIN printed :
            \A b \in Buckets :
                printed[i].status_counts[b] =
                    Sum([f \in DOMAIN all_results |->
                            Cardinality({k \in DOMAIN all_results[f] :
                                            Hundreds(all_results[f][k]) = b})],
                        Len(all_results))

\* C17 (as stated): a line that cannot be parsed is skipped and never ends
\* the analysis.
C17_MalformedRowSkipped ==
    (\E f \in DOMAIN all_results : ParserError(all_results[f])) => apc # "crashed"

====
